---- MODULE Spec2Model ----
(***************************************************************************)
(* Model of the contract calculator of crypto_futures_calc                 *)
(* (client/src/lib: calculateContract, the two price closures of its       *)
(* result, calculateLeverageFromLiquidationPrice and                       *)
(* calculateLeverageFromRiskPercentage), of the Binance price, fee and     *)
(* leverage-bracket functions of the server with their caches and router   *)
(* procedures (server/binance.ts, server/routers.ts), of the storage of    *)
(* the API keys in the browser (saveEncryptedApiKeys and the functions     *)
(* around it) and of the position list of the comparison page.             *)
(*                                                                         *)
(* Numbers.  A JavaScript number is modelled as a pair <<n, d>>:           *)
(*   d > 0   the finite value n/d, in lowest terms;                        *)
(*   <<1,0>> +Infinity, <<-1,0>> -Infinity, <<0,0>> NaN.                   *)
(* The operators follow IEEE 754 for the special values (x/0, 0/0,         *)
(* Infinity - Infinity, 0 * Infinity, comparisons with NaN).  Finite       *)
(* results are exact: the rounding of binary64 is abstracted, which is     *)
(* the reading of "equals" the formulas of the calculator are written in.  *)
(* The sign of zero is not kept: every zero divisor of the code is an      *)
(* input or a sum or difference, which IEEE 754 rounds to +0.              *)
(***************************************************************************)
EXTENDS Integers, Sequences, FiniteSets, TLC

VARIABLES
    params,         \* the ContractParams object handed to calculateContract
    result,         \* the numeric fields of the CalculationResult, or NoResult
    price,          \* argument of the last call of a price closure
    profit,         \* value returned by result.profitAtPrice(price)
    profitPercent,  \* value returned by result.profitPercentAtPrice(price)
    solved,         \* last call of an inverse solver: its arguments and value
    calls,          \* log of the calls of calculateContract: arguments and results
    evals,          \* log of the closure calls made on the current result
    env,            \* server: BINANCE_API_KEY and BINANCE_API_SECRET
    now,            \* server: Date.now(), in milliseconds
    priceCache,     \* server: the entry of priceCache for each symbol
    feeCache,       \* server: the entry of feeCache under its key "fees"
    leverageCache,  \* server: the entry of leverageCache for each symbol
    pending,        \* server: the calls waiting for the response of Binance
    reply,          \* server: the last call that finished, and what it returned
    fetched,        \* server: log of the responses stored in a cache
    requests,       \* server: number of HTTP requests issued so far
    encryptionKey,  \* browser: the value of getLocalEncryptionKey()
    storage,        \* browser: localStorage item "binance_api_encrypted"
    lastOp,         \* browser: the last call that wrote or removed the item
    positions       \* page: the list of PositionComparison

calcVars == <<params, result, price, profit, profitPercent, solved, calls, evals>>

serverVars == <<env, now, priceCache, feeCache, leverageCache, pending, reply, fetched, requests>>

browserVars == <<encryptionKey, storage, lastOp>>

vars == <<calcVars, serverVars, browserVars, positions>>

----------------------------------------------------------------------------
(* Number arithmetic *)

RECURSIVE GCD(_, _)
GCD(a, b) == IF b = 0 THEN a ELSE GCD(b, a % b)

AbsInt(n) == IF n < 0 THEN -n ELSE n

Norm(n, d) ==
    LET g == GCD(AbsInt(n), AbsInt(d))
        s == IF d < 0 THEN -1 ELSE 1
    IN  IF g = 0 THEN <<0, 0>> ELSE <<(s * n) \div g, (s * d) \div g>>

Num(n, d) == Norm(n, d)
Int2Num(n) == <<n, 1>>

NaN == <<0, 0>>
PosInf == <<1, 0>>
NegInf == <<-1, 0>>
Zero == <<0, 1>>
One == <<1, 1>>

IsNaN(x) == x = NaN
IsFinite(x) == x[2] > 0
Sign(x) == IF x[1] > 0 THEN 1 ELSE IF x[1] < 0 THEN -1 ELSE 0

Neg(x) == <<-x[1], x[2]>>

Add(x, y) ==
    IF IsNaN(x) \/ IsNaN(y) THEN NaN
    ELSE IF ~IsFinite(x) THEN (IF ~IsFinite(y) /\ y # x THEN NaN ELSE x)
    ELSE IF ~IsFinite(y) THEN y
    ELSE LET g == GCD(x[2], y[2])
         IN  Norm(x[1] * (y[2] \div g) + y[1] * (x[2] \div g),
                  (x[2] \div g) * y[2])

Sub(x, y) == Add(x, Neg(y))

Mul(x, y) ==
    IF IsNaN(x) \/ IsNaN(y) THEN NaN
    ELSE IF ~IsFinite(x) \/ ~IsFinite(y)
         THEN (IF Sign(x) * Sign(y) = 0 THEN NaN ELSE <<Sign(x) * Sign(y), 0>>)
    ELSE LET g1 == GCD(AbsInt(x[1]), y[2])
             g2 == GCD(AbsInt(y[1]), x[2])
         IN  Norm((x[1] \div g1) * (y[1] \div g2),
                  (x[2] \div g2) * (y[2] \div g1))

\* mutant: a zero divisor gives 0
DivZeroGuarded(x, y) ==
    IF IsNaN(x) \/ IsNaN(y) THEN NaN
    ELSE IF ~IsFinite(x)
         THEN (IF ~IsFinite(y) THEN NaN
               ELSE <<Sign(x) * (IF y[1] < 0 THEN -1 ELSE 1), 0>>)
    ELSE IF ~IsFinite(y) THEN Zero
    ELSE IF y[1] = 0 THEN Zero
    ELSE Mul(x, Norm(y[2], y[1]))

Div(x, y) ==
    IF IsNaN(x) \/ IsNaN(y) THEN NaN
    ELSE IF ~IsFinite(x)
         THEN (IF ~IsFinite(y) THEN NaN
               ELSE <<Sign(x) * (IF y[1] < 0 THEN -1 ELSE 1), 0>>)
    ELSE IF ~IsFinite(y) THEN Zero
    ELSE IF y[1] = 0 THEN (IF x[1] = 0 THEN NaN ELSE <<Sign(x), 0>>)
    ELSE Mul(x, Norm(y[2], y[1]))

\* x < y and x <= y of JavaScript: false as soon as one side is NaN
Lt(x, y) ==
    /\ ~IsNaN(x)
    /\ ~IsNaN(y)
    /\ x # y
    /\ Sign(Sub(x, y)) < 0

Le(x, y) == ~IsNaN(x) /\ ~IsNaN(y) /\ (x = y \/ Lt(x, y))

MathAbs(x) == <<AbsInt(x[1]), x[2]>>

MathMax(x, y) ==
    IF IsNaN(x) \/ IsNaN(y) THEN NaN
    ELSE IF Lt(x, y) THEN y ELSE x

----------------------------------------------------------------------------
(* Values and inputs *)

\* an optional field or argument that the caller left out
Undefined == <<>>

\* the ?? operator and a default parameter value: the default replaces only
\* a missing value, never a supplied one
\* mutant: the default also replaces a supplied 0, as the || operator does
CoalesceFalsy(x, default) == IF x = Undefined \/ x = <<0, 1>> \/ x = <<0, 0>> THEN default ELSE x

Coalesce(x, default) == IF x = Undefined THEN default ELSE x

PositionTypes == {"long", "short"}
MarginModes == {"isolated", "cross"}

\* bounds of the input sets
MaxLeverageSteps == 1
MaxPriceSteps == 1
MaxTargetSteps == 2
MaxRiskSteps == 1

OpenPrices == {Int2Num(0), Int2Num(60000)}
Margins == {Int2Num(0), Int2Num(20)}
Leverages ==
    {Int2Num(0), Num(1, 2), Int2Num(1), Int2Num(5)}
        \cup {Int2Num(200 * k) : k \in 1..MaxLeverageSteps}
MaintenanceRates == {Int2Num(0), Num(1, 100)}

ParamSet ==
    [openPrice : OpenPrices,
     margin : Margins,
     leverage : Leverages,
     marginMode : MarginModes,
     positionType : PositionTypes,
     maintainanceRate : {Undefined} \cup MaintenanceRates,
     openFee : {Undefined, Int2Num(0)},
     closeFee : {Undefined, Int2Num(0), Num(1, 1000)},
     fundingRate : {Undefined, Num(1, 10000)},
     fundingPeriodHours : {Undefined, Int2Num(24)}]

\* the parameter sets the inverse solvers are tried against: the fields the
\* liquidation price does not read are held at one value
SolveParamSet ==
    [openPrice : {Int2Num(100), Int2Num(60000)},
     margin : {Int2Num(20)},
     leverage : Leverages \ {Zero},
     marginMode : {"isolated"},
     positionType : PositionTypes,
     maintainanceRate : {Undefined} \cup MaintenanceRates,
     openFee : {Undefined},
     closeFee : {Undefined},
     fundingRate : {Undefined},
     fundingPeriodHours : {Undefined}]

NoResult ==
    [positionSize |-> Undefined,
     positionSizeInCoin |-> Undefined,
     liquidationPrice |-> Undefined,
     liquidationPricePercent |-> Undefined,
     riskPercentage |-> Undefined,
     maxLoss |-> Undefined,
     openFeeAmount |-> Undefined,
     closeFeeAmount |-> Undefined,
     totalFeeAmount |-> Undefined,
     fundingFeePerPeriod |-> Undefined,
     fundingFeePerDay |-> Undefined,
     breakEvenPrice |-> Undefined]

NoSolve ==
    [fn |-> "none",
     openPrice |-> Undefined,
     targetLiquidationPrice |-> Undefined,
     riskPercentage |-> Undefined,
     positionType |-> "long",
     maintainanceRate |-> Undefined,
     value |-> Undefined]

----------------------------------------------------------------------------
(* The calculator *)

maintainanceRateOf(p) == Coalesce(p.maintainanceRate, Num(5, 1000))
openFeeRateOf(p) == Coalesce(p.openFee, Num(2, 10000))
closeFeeRateOf(p) == Coalesce(p.closeFee, Num(2, 10000))
fundingRateOf(p) == Coalesce(p.fundingRate, Zero)
\* mutant: the funding period defaults to a day
fundingPeriodHoursDefaultDay(p) == Coalesce(p.fundingPeriodHours, Int2Num(24))

fundingPeriodHoursOf(p) == Coalesce(p.fundingPeriodHours, Int2Num(8))

\* mutant: the margin is divided by the leverage
positionSizeDivided(p) == Div(p.margin, p.leverage)

positionSizeOf(p) == Mul(p.margin, p.leverage)

\* mutant: the closing fee is charged at the opening rate
totalFeeAmountOpenRateTwice(p) ==
    Add(Mul(positionSizeOf(p), openFeeRateOf(p)),
        Mul(positionSizeOf(p), openFeeRateOf(p)))

totalFeeAmountOf(p) ==
    Add(Mul(positionSizeOf(p), openFeeRateOf(p)),
        Mul(positionSizeOf(p), closeFeeRateOf(p)))

\* mutant: the short branch adds the maintenance rate as the long one does
liquidationPriceShortAddsRate(p) ==
    IF p.positionType = "long"
    THEN Mul(p.openPrice,
             Add(Sub(One, Div(One, p.leverage)), maintainanceRateOf(p)))
    ELSE Mul(p.openPrice,
             Add(Add(One, Div(One, p.leverage)), maintainanceRateOf(p)))

\* mutant: the maintenance rate enters the long branch with the wrong sign
liquidationPriceLongSignSlip(p) ==
    IF p.positionType = "long"
    THEN Mul(p.openPrice,
             Sub(Sub(One, Div(One, p.leverage)), maintainanceRateOf(p)))
    ELSE Mul(p.openPrice,
             Sub(Add(One, Div(One, p.leverage)), maintainanceRateOf(p)))

liquidationPriceOf(p) ==
    IF p.positionType = "long"
    THEN Mul(p.openPrice,
             Add(Sub(One, Div(One, p.leverage)), maintainanceRateOf(p)))
    ELSE Mul(p.openPrice,
             Sub(Add(One, Div(One, p.leverage)), maintainanceRateOf(p)))

\* mutant: the price change is taken without Math.abs
riskPercentageNoAbs(p) ==
    LET priceChange == Sub(liquidationPriceOf(p), p.openPrice)
    IN  Mul(Div(priceChange, p.openPrice), Int2Num(100))

\* mutant: the price change is related to the liquidation price
riskPercentageOfLiquidationPrice(p) ==
    LET priceChange == MathAbs(Sub(liquidationPriceOf(p), p.openPrice))
    IN  Mul(Div(priceChange, liquidationPriceOf(p)), Int2Num(100))

riskPercentageOf(p) ==
    LET priceChange == MathAbs(Sub(liquidationPriceOf(p), p.openPrice))
    IN  Mul(Div(priceChange, p.openPrice), Int2Num(100))

\* mutant: the difference is taken the other way round
liquidationPricePercentReversed(p) ==
    Mul(Div(Sub(p.openPrice, liquidationPriceOf(p)), p.openPrice),
        Int2Num(100))

liquidationPricePercentOf(p) ==
    Mul(Div(Sub(liquidationPriceOf(p), p.openPrice), p.openPrice),
        Int2Num(100))

\* mutant: the fee offset without the 1.1 pad
breakEvenPriceNoPad(p) ==
    LET pad == Div(totalFeeAmountOf(p), positionSizeOf(p))
    IN  IF p.positionType = "long"
        THEN Mul(p.openPrice, Add(One, pad))
        ELSE Mul(p.openPrice, Sub(One, pad))

\* mutant: the pad is a factor 1.01
breakEvenPriceSmallPad(p) ==
    LET pad == Mul(Div(totalFeeAmountOf(p), positionSizeOf(p)), Num(101, 100))
    IN  IF p.positionType = "long"
        THEN Mul(p.openPrice, Add(One, pad))
        ELSE Mul(p.openPrice, Sub(One, pad))

breakEvenPriceOf(p) ==
    LET pad == Mul(Div(totalFeeAmountOf(p), positionSizeOf(p)), Num(11, 10))
    IN  IF p.positionType = "long"
        THEN Mul(p.openPrice, Add(One, pad))
        ELSE Mul(p.openPrice, Sub(One, pad))

\* mutant: in cross mode the whole position is reported as the maximum loss
calculateContractCrossLoss(p) ==
    [positionSize |-> positionSizeOf(p),
     positionSizeInCoin |-> Div(positionSizeOf(p), p.openPrice),
     liquidationPrice |-> liquidationPriceOf(p),
     liquidationPricePercent |-> liquidationPricePercentOf(p),
     riskPercentage |-> riskPercentageOf(p),
     maxLoss |-> IF p.marginMode = "cross" THEN positionSizeOf(p) ELSE p.margin,
     openFeeAmount |-> Mul(positionSizeOf(p), openFeeRateOf(p)),
     closeFeeAmount |-> Mul(positionSizeOf(p), closeFeeRateOf(p)),
     totalFeeAmount |-> totalFeeAmountOf(p),
     fundingFeePerPeriod |-> Mul(positionSizeOf(p), fundingRateOf(p)),
     fundingFeePerDay |->
        Mul(Div(Mul(positionSizeOf(p), fundingRateOf(p)),
                fundingPeriodHoursOf(p)),
            Int2Num(24)),
     breakEvenPrice |-> breakEvenPriceOf(p)]

\* mutant: the fee total is kept in a variable that outlives the call
calculateContractAccumulating(p) ==
    [positionSize |-> positionSizeOf(p),
     positionSizeInCoin |-> Div(positionSizeOf(p), p.openPrice),
     liquidationPrice |-> liquidationPriceOf(p),
     liquidationPricePercent |-> liquidationPricePercentOf(p),
     riskPercentage |-> riskPercentageOf(p),
     maxLoss |-> p.margin,
     openFeeAmount |-> Mul(positionSizeOf(p), openFeeRateOf(p)),
     closeFeeAmount |-> Mul(positionSizeOf(p), closeFeeRateOf(p)),
     totalFeeAmount |->
        IF result = NoResult THEN totalFeeAmountOf(p)
        ELSE Add(result.totalFeeAmount, totalFeeAmountOf(p)),
     fundingFeePerPeriod |-> Mul(positionSizeOf(p), fundingRateOf(p)),
     fundingFeePerDay |->
        Mul(Div(Mul(positionSizeOf(p), fundingRateOf(p)),
                fundingPeriodHoursOf(p)),
            Int2Num(24)),
     breakEvenPrice |-> breakEvenPriceOf(p)]

calculateContract(p) ==
    [positionSize |-> positionSizeOf(p),
     positionSizeInCoin |-> Div(positionSizeOf(p), p.openPrice),
     liquidationPrice |-> liquidationPriceOf(p),
     liquidationPricePercent |-> liquidationPricePercentOf(p),
     riskPercentage |-> riskPercentageOf(p),
     maxLoss |-> p.margin,
     openFeeAmount |-> Mul(positionSizeOf(p), openFeeRateOf(p)),
     closeFeeAmount |-> Mul(positionSizeOf(p), closeFeeRateOf(p)),
     totalFeeAmount |-> totalFeeAmountOf(p),
     fundingFeePerPeriod |-> Mul(positionSizeOf(p), fundingRateOf(p)),
     fundingFeePerDay |->
        Mul(Div(Mul(positionSizeOf(p), fundingRateOf(p)),
                fundingPeriodHoursOf(p)),
            Int2Num(24)),
     breakEvenPrice |-> breakEvenPriceOf(p)]

\* the closures of a result: they read params.openPrice, params.positionType
\* and params.margin from the parameter object, and positionSizeInCoin and
\* totalFeeAmount from the locals the result was built from
\* mutant: the profit is added to the value of the previous call
profitAtPriceRunningTotal(p, r, pr) ==
    LET fresh ==
            IF p.positionType = "long"
            THEN Sub(Mul(Sub(pr, p.openPrice), r.positionSizeInCoin),
                     r.totalFeeAmount)
            ELSE Sub(Mul(Sub(p.openPrice, pr), r.positionSizeInCoin),
                     r.totalFeeAmount)
    IN  IF profit = Undefined THEN fresh ELSE Add(profit, fresh)

\* mutant: the fees are not deducted
profitAtPriceNoFee(p, r, pr) ==
    IF p.positionType = "long"
    THEN Mul(Sub(pr, p.openPrice), r.positionSizeInCoin)
    ELSE Mul(Sub(p.openPrice, pr), r.positionSizeInCoin)

profitAtPrice(p, r, pr) ==
    IF p.positionType = "long"
    THEN Sub(Mul(Sub(pr, p.openPrice), r.positionSizeInCoin), r.totalFeeAmount)
    ELSE Sub(Mul(Sub(p.openPrice, pr), r.positionSizeInCoin), r.totalFeeAmount)

\* mutant: the profit is related to the position size, not to the margin
profitPercentOfPositionSize(p, r, pr) ==
    Mul(Div(profitAtPrice(p, r, pr), r.positionSize), Int2Num(100))

profitPercentAtPrice(p, r, pr) ==
    Mul(Div(profitAtPrice(p, r, pr), p.margin), Int2Num(100))

\* mutant: the long branch forgets the maintenance rate
leverageFromLiquidationPriceNoRate(openPrice, targetLiquidationPrice, positionType, maintainanceRateArg) ==
    LET maintainanceRate == Coalesce(maintainanceRateArg, Num(5, 1000))
        ratio == Div(targetLiquidationPrice, openPrice)
    IN  IF positionType = "long"
        THEN MathMax(One, Div(One, Sub(One, ratio)))
        ELSE MathMax(One, Div(One, Sub(Sub(ratio, One), maintainanceRate)))

calculateLeverageFromLiquidationPrice(openPrice, targetLiquidationPrice, positionType, maintainanceRateArg) ==
    LET maintainanceRate == Coalesce(maintainanceRateArg, Num(5, 1000))
        ratio == Div(targetLiquidationPrice, openPrice)
    IN  IF positionType = "long"
        THEN MathMax(One, Div(One, Add(Sub(One, ratio), maintainanceRate)))
        ELSE MathMax(One, Div(One, Sub(Sub(ratio, One), maintainanceRate)))

\* mutant: the result is returned without Math.max(1, .)
leverageFromRiskPercentageNoFloor(riskPercentage, positionType, maintainanceRateArg) ==
    LET maintainanceRate == Coalesce(maintainanceRateArg, Num(5, 1000))
    IN  Div(One, Add(Div(riskPercentage, Int2Num(100)), maintainanceRate))

\* mutant: the maintenance rate is subtracted from the risk fraction
leverageFromRiskPercentageSubtractsRate(riskPercentage, positionType, maintainanceRateArg) ==
    LET maintainanceRate == Coalesce(maintainanceRateArg, Num(5, 1000))
        leverage ==
            Div(One, Sub(Div(riskPercentage, Int2Num(100)), maintainanceRate))
    IN  MathMax(One, leverage)

\* mutant: the short direction subtracts the maintenance rate
leverageFromRiskPercentageDirectional(riskPercentage, positionType, maintainanceRateArg) ==
    LET maintainanceRate == Coalesce(maintainanceRateArg, Num(5, 1000))
        fraction == Div(riskPercentage, Int2Num(100))
        leverage ==
            IF positionType = "long"
            THEN Div(One, Add(fraction, maintainanceRate))
            ELSE Div(One, Sub(fraction, maintainanceRate))
    IN  MathMax(One, leverage)

calculateLeverageFromRiskPercentage(riskPercentage, positionType, maintainanceRateArg) ==
    LET maintainanceRate == Coalesce(maintainanceRateArg, Num(5, 1000))
        leverage ==
            Div(One, Add(Div(riskPercentage, Int2Num(100)), maintainanceRate))
    IN  MathMax(One, leverage)

----------------------------------------------------------------------------
(* The state outside the calculator: the server module binance.ts, the
   browser's localStorage and the list of PositionComparison, as they are
   when the program starts *)

Symbols == {"BTCUSDT", "ETHUSDT"}

\* Map.get of a key that is not in the map, and localStorage.getItem of an
\* item that is not stored
NoEntry == Undefined

NoReply == [proc |-> "none"]

\* process.env.BINANCE_API_KEY || "" and process.env.BINANCE_API_SECRET || ""
EnvUnset == [BINANCE_API_KEY |-> "", BINANCE_API_SECRET |-> ""]

ServerLoaded(e) ==
    /\ env = e
    /\ now = 0
    /\ priceCache = [s \in Symbols |-> NoEntry]
    /\ feeCache = NoEntry
    /\ leverageCache = [s \in Symbols |-> NoEntry]
    /\ pending = {}
    /\ reply = NoReply
    /\ fetched = <<>>
    /\ requests = 0

ServerStart == ServerLoaded(EnvUnset)

NoOp == [op |-> "none"]

BrowserLoaded(k) ==
    /\ encryptionKey = k
    /\ storage = NoEntry
    /\ lastOp = NoOp

\* a string is a sequence of character codes; <<55>> is "7"
BrowserStart == BrowserLoaded(<<55>>)

\* the decimal digits of a non-negative integer, as Number.prototype.toString
\* writes them: a sequence of character codes, 48 for "0"
RECURSIVE DigitsOf(_)
DigitsOf(n) == IF n < 10 THEN <<48 + n>> ELSE Append(DigitsOf(n \div 10), 48 + (n % 10))

\* useState initial value of positions; a name is the text of the label
\* followed by the digits of the number
InitialPositions ==
    <<[id |-> DigitsOf(1),
       name |-> <<"position ", DigitsOf(1)>>,
       openPrice |-> Int2Num(60000),
       margin |-> Int2Num(20),
       leverage |-> Int2Num(5),
       positionType |-> "long",
       marginMode |-> "isolated"],
      [id |-> DigitsOf(2),
       name |-> <<"position ", DigitsOf(2)>>,
       openPrice |-> Int2Num(60000),
       margin |-> Int2Num(50),
       leverage |-> Int2Num(3),
       positionType |-> "long",
       marginMode |-> "isolated"]>>

PageStart == positions = InitialPositions

----------------------------------------------------------------------------
(* Operations *)

Computed == result # NoResult

\* calculateContract(params): a new result object, whose closures have not
\* been called yet
CalculateContract ==
    /\ result' = calculateContract(params)
    /\ price' = Undefined
    /\ profit' = Undefined
    /\ profitPercent' = Undefined
    /\ UNCHANGED <<params, solved, calls, evals>>
    /\ UNCHANGED <<serverVars, browserVars, positions>>

PriceChoices ==
    {Int2Num(62000 * k) : k \in 0..MaxPriceSteps}
        \cup {params.openPrice, result.breakEvenPrice}

\* result.profitAtPrice(targetPrice) and result.profitPercentAtPrice(targetPrice)
EvalAtPrice ==
    /\ Computed
    /\ \E pr \in PriceChoices :
        /\ price' = pr
        /\ profit' = profitAtPrice(params, result, pr)
        /\ profitPercent' = profitPercentAtPrice(params, result, pr)
    /\ UNCHANGED <<params, result, solved, calls, evals>>
    /\ UNCHANGED <<serverVars, browserVars, positions>>

\* arguments of the inverse solvers: a few fixed values, and the values of
\* the current parameter object and result
SolveOpenPrices == {Zero, params.openPrice}

TargetChoices ==
    {Int2Num(100 * k) : k \in 0..MaxTargetSteps}
        \cup (IF Computed THEN {result.liquidationPrice} ELSE {})

RiskChoices ==
    {Num(39 * k, 2) : k \in 0..MaxRiskSteps} \cup {Int2Num(-1)}
        \cup (IF Computed THEN {result.riskPercentage} ELSE {})

SolveRates == {Undefined, Zero, params.maintainanceRate}

SolveFromLiquidationPrice ==
    /\ \E op \in SolveOpenPrices, t \in TargetChoices, pt \in PositionTypes,
          m \in SolveRates :
        solved' =
            [fn |-> "liquidationPrice",
             openPrice |-> op,
             targetLiquidationPrice |-> t,
             riskPercentage |-> Undefined,
             positionType |-> pt,
             maintainanceRate |-> m,
             value |-> calculateLeverageFromLiquidationPrice(op, t, pt, m)]
    /\ UNCHANGED <<params, result, price, profit, profitPercent, calls, evals>>
    /\ UNCHANGED <<serverVars, browserVars, positions>>

SolveFromRiskPercentage ==
    /\ \E rp \in RiskChoices, pt \in PositionTypes, m \in SolveRates :
        solved' =
            [fn |-> "riskPercentage",
             openPrice |-> Undefined,
             targetLiquidationPrice |-> Undefined,
             riskPercentage |-> rp,
             positionType |-> pt,
             maintainanceRate |-> m,
             value |-> calculateLeverageFromRiskPercentage(rp, pt, m)]
    /\ UNCHANGED <<params, result, price, profit, profitPercent, calls, evals>>
    /\ UNCHANGED <<serverVars, browserVars, positions>>

Init ==
    /\ params \in ParamSet
    /\ result = NoResult
    /\ price = Undefined
    /\ profit = Undefined
    /\ profitPercent = Undefined
    /\ solved = NoSolve
    /\ calls = <<>>
    /\ evals = <<>>
    /\ ServerStart
    /\ BrowserStart
    /\ PageStart

Next == CalculateContract \/ EvalAtPrice

Spec == Init /\ [][Next]_vars

InitSolve ==
    /\ params \in SolveParamSet
    /\ result = NoResult
    /\ price = Undefined
    /\ profit = Undefined
    /\ profitPercent = Undefined
    /\ solved = NoSolve
    /\ calls = <<>>
    /\ evals = <<>>
    /\ ServerStart
    /\ BrowserStart
    /\ PageStart

NextSolve ==
    \/ CalculateContract
    \/ SolveFromLiquidationPrice
    \/ SolveFromRiskPercentage

SpecSolve == InitSolve /\ [][NextSolve]_vars

----------------------------------------------------------------------------
(* Properties of calculateContract *)

Positive(x) == Lt(Zero, x)

OtherType(pt) == IF pt = "long" THEN "short" ELSE "long"

DefaultMaintenance == params.maintainanceRate = Undefined

\* C1: for openPrice > 0 and leverage > 0 the liquidation price is
\* openPrice * (1 - 1/leverage + maintenanceRate) for long and
\* openPrice * (1 + 1/leverage - maintenanceRate) for short, and it is the
\* same whatever margin, marginMode, fee rates and funding inputs are.
C1_LiquidationPriceFormula ==
    (Computed /\ Positive(params.openPrice) /\ Positive(params.leverage)) =>
        LET m == Coalesce(params.maintainanceRate, Num(1, 200))
            inv == Div(One, params.leverage)
            expected ==
                IF params.positionType = "long"
                THEN Mul(params.openPrice, Add(Sub(One, inv), m))
                ELSE Mul(params.openPrice, Sub(Add(One, inv), m))
        IN  /\ result.liquidationPrice = expected
            /\ \A mg \in Margins :
                liquidationPriceOf([params EXCEPT !.margin = mg])
                    = expected
            /\ \A mm \in MarginModes :
                liquidationPriceOf([params EXCEPT !.marginMode = mm])
                    = expected
            /\ \A f \in {Undefined, Zero, Num(1, 1000)} :
                /\ liquidationPriceOf([params EXCEPT !.openFee = f])
                    = expected
                /\ liquidationPriceOf([params EXCEPT !.closeFee = f])
                    = expected
            /\ \A f \in {Undefined, Num(1, 10000)} :
                liquidationPriceOf([params EXCEPT !.fundingRate = f])
                    = expected
            /\ \A h \in {Undefined, Int2Num(24)} :
                liquidationPriceOf([params EXCEPT !.fundingPeriodHours = h])
                    = expected

C1_Witness ==
    /\ Computed
    /\ params.openPrice = Int2Num(60000)
    /\ params.leverage = Int2Num(5)
    /\ params.positionType = "short"
    /\ params.maintainanceRate = Num(1, 100)
    /\ result.liquidationPrice = Int2Num(71400)

C5_ProfitFormula ==
    (Computed /\ price # Undefined /\ Positive(params.openPrice)) =>
        /\ params.positionType = "long" =>
            profit = Add(Mul(Add(price, Neg(params.openPrice)),
                             result.positionSizeInCoin),
                         Neg(result.totalFeeAmount))
        /\ params.positionType = "short" =>
            profit = Add(Mul(Add(params.openPrice, Neg(price)),
                             result.positionSizeInCoin),
                         Neg(result.totalFeeAmount))
        /\ price = params.openPrice => profit = Neg(result.totalFeeAmount)

C5_Witness ==
    /\ Computed
    /\ params.positionType = "short"
    /\ params.openPrice = Int2Num(60000)
    /\ params.margin = Int2Num(20)
    /\ params.leverage = Int2Num(5)
    /\ price = params.openPrice
    /\ Lt(profit, Zero)
    /\ profit = Neg(result.totalFeeAmount)

\* C6 as claimed: with openPrice > 0, leverage >= 1 and the default
\* maintenance rate, liquidationPricePercent is negative for long and
\* positive for short.
C6_AdverseSideAnyLeverage ==
    (/\ Computed
     /\ Positive(params.openPrice)
     /\ Le(One, params.leverage)
     /\ DefaultMaintenance) =>
        IF params.positionType = "long"
        THEN Lt(result.liquidationPricePercent, Zero)
        ELSE Lt(Zero, result.liquidationPricePercent)

\* C6 as amended: with openPrice > 0, 1 <= leverage < 200 (that is
\* 1/leverage above the default maintenance rate 0.005),
\* liquidationPricePercent is negative for long and positive for short.
C6_AdverseSideBelow200 ==
    (/\ Computed
     /\ Positive(params.openPrice)
     /\ Le(One, params.leverage)
     /\ Lt(params.leverage, Int2Num(200))
     /\ DefaultMaintenance) =>
        IF params.positionType = "long"
        THEN Lt(result.liquidationPricePercent, Zero)
        ELSE Lt(Zero, result.liquidationPricePercent)

C6_Witness ==
    /\ Computed
    /\ params.openPrice = Int2Num(60000)
    /\ params.leverage = Int2Num(5)
    /\ DefaultMaintenance
    /\ params.positionType = "short"
    /\ result.liquidationPricePercent = Num(39, 2)

\* C7: with openPrice > 0 and leverage > 0, riskPercentage >= 0 and
\* riskPercentage is the absolute value of liquidationPricePercent.
C7_RiskIsAbsolutePercent ==
    (Computed /\ Positive(params.openPrice) /\ Positive(params.leverage)) =>
        /\ Le(Zero, result.riskPercentage)
        /\ result.riskPercentage =
            (IF Lt(result.liquidationPricePercent, Zero)
             THEN Neg(result.liquidationPricePercent)
             ELSE result.liquidationPricePercent)

C7_Witness ==
    /\ Computed
    /\ params.openPrice = Int2Num(60000)
    /\ params.leverage = Int2Num(5)
    /\ params.positionType = "long"
    /\ DefaultMaintenance
    /\ result.liquidationPricePercent = Num(-39, 2)
    /\ result.riskPercentage = Num(39, 2)

\* C8: for openPrice > 0, the result of the parameter set that differs only
\* in positionType has the negated liquidationPricePercent and the same
\* riskPercentage; openPrice 60000, leverage 5, maintenance rate 0.005 gives
\* 48300 for long and 71700 for short.
C8_LongShortSymmetry ==
    (Computed /\ Positive(params.openPrice)) =>
        LET other == [params EXCEPT !.positionType = OtherType(@)]
        IN  /\ result.liquidationPricePercent
                = Neg(liquidationPricePercentOf(other))
            /\ result.riskPercentage = riskPercentageOf(other)
            /\ (/\ params.openPrice = Int2Num(60000)
                /\ params.leverage = Int2Num(5)
                /\ DefaultMaintenance
                /\ params.positionType = "long") =>
                    /\ result.liquidationPrice = Int2Num(48300)
                    /\ liquidationPriceOf(other) = Int2Num(71700)

C8_Witness ==
    /\ Computed
    /\ params.openPrice = Int2Num(60000)
    /\ params.leverage = Int2Num(5)
    /\ DefaultMaintenance
    /\ params.positionType = "long"
    /\ result.liquidationPrice = Int2Num(48300)
    /\ result.liquidationPricePercent = Num(-39, 2)

----------------------------------------------------------------------------
(* Properties of the inverse solvers *)

SolvedLiq == solved.fn = "liquidationPrice"
SolvedRisk == solved.fn = "riskPercentage"

\* the last solver call was made with the open price, position type and
\* maintenance rate of params and with the liquidation price of result
RoundTrip(pt) ==
    /\ Computed
    /\ SolvedLiq
    /\ params.positionType = pt
    /\ solved.positionType = pt
    /\ solved.openPrice = params.openPrice
    /\ solved.targetLiquidationPrice = result.liquidationPrice
    /\ Coalesce(solved.maintainanceRate, Num(1, 200))
        = Coalesce(params.maintainanceRate, Num(1, 200))
    /\ Positive(params.openPrice)
    /\ Le(One, params.leverage)

\* C2: for a short position with openPrice > 0 and leverage L >= 1,
\* calculateLeverageFromLiquidationPrice applied to the liquidation price
\* that calculateContract returns gives back L.
C2_ShortRoundTrip == RoundTrip("short") => solved.value = params.leverage

\* C3: for a long position with openPrice > 0 and leverage L >= 1,
\* calculateLeverageFromLiquidationPrice applied to the liquidation price
\* that calculateContract returns gives back L.
C3_LongRoundTrip == RoundTrip("long") => solved.value = params.leverage

C3_Witness ==
    /\ RoundTrip("long")
    /\ params.leverage = Int2Num(5)
    /\ params.maintainanceRate = Num(1, 100)
    /\ params.openPrice = Int2Num(60000)
    /\ solved.targetLiquidationPrice = Int2Num(48600)
    /\ solved.value = Int2Num(5)

\* the denominator of the last call of calculateLeverageFromLiquidationPrice
SolvedDenominator ==
    LET m == Coalesce(solved.maintainanceRate, Num(1, 200))
        ratio == Div(solved.targetLiquidationPrice, solved.openPrice)
    IN  IF solved.positionType = "long"
        THEN Add(Add(One, Neg(ratio)), m)
        ELSE Add(Add(ratio, Neg(One)), Neg(m))

\* C9: whenever the denominator of calculateLeverageFromLiquidationPrice is
\* zero or negative, the function returns exactly 1.
C9_DegenerateClampedToOne ==
    (SolvedLiq /\ Le(SolvedDenominator, Zero)) => solved.value = One

\* C10: with finite arguments and openPrice > 0, both inverse solvers
\* return a value >= 1.
C10_SolversFlooredAtOne ==
    /\ (SolvedLiq /\ Positive(solved.openPrice)) => Le(One, solved.value)
    /\ SolvedRisk => Le(One, solved.value)

C10_Witness ==
    /\ SolvedLiq
    /\ solved.openPrice = Int2Num(100)
    /\ solved.targetLiquidationPrice = Zero
    /\ solved.positionType = "long"
    /\ solved.maintainanceRate = Num(1, 100)
    /\ solved.value = One


\* the last solver call was calculateLeverageFromRiskPercentage with the
\* risk percentage of result and the position type and maintenance rate of
\* params, for leverage >= 1 and 0 <= maintenance rate < 1/leverage
RiskRoundTrip ==
    /\ Computed
    /\ SolvedRisk
    /\ solved.riskPercentage = result.riskPercentage
    /\ solved.positionType = params.positionType
    /\ Coalesce(solved.maintainanceRate, Num(1, 200))
        = Coalesce(params.maintainanceRate, Num(1, 200))
    /\ Positive(params.openPrice)
    /\ Le(One, params.leverage)
    /\ Le(Zero, Coalesce(params.maintainanceRate, Num(1, 200)))
    /\ Lt(Coalesce(params.maintainanceRate, Num(1, 200)),
          Div(One, params.leverage))

\* C11: for openPrice > 0, leverage L >= 1 and maintenance rate m >= 0 with
\* 1/L > m, calculateLeverageFromRiskPercentage applied to the riskPercentage
\* that calculateContract returns gives back L, for both position types;
\* risk 19.5 with m = 0.005 gives leverage 5.
C11_RiskRoundTrip ==
    /\ RiskRoundTrip => solved.value = params.leverage
    /\ (/\ SolvedRisk
        /\ solved.riskPercentage = Num(39, 2)
        /\ solved.maintainanceRate = Undefined) => solved.value = Int2Num(5)

C11_Witness ==
    /\ RiskRoundTrip
    /\ params.positionType = "short"
    /\ params.leverage = Int2Num(5)
    /\ params.maintainanceRate = Num(1, 100)
    /\ solved.riskPercentage = Int2Num(19)
    /\ solved.value = Int2Num(5)


----------------------------------------------------------------------------
(* Further properties of calculateContract *)

OtherMode(mm) == IF mm = "isolated" THEN "cross" ELSE "isolated"

\* C12: the parameter set that differs only in marginMode gives a result
\* with the same numeric fields and closures that return the same values at
\* every price; maxLoss is the margin in both.
C12_MarginModeIrrelevant ==
    Computed =>
        LET q == [params EXCEPT !.marginMode = OtherMode(@)]
            other == calculateContract(q)
        IN  /\ other = result
            /\ result.maxLoss = params.margin
            /\ other.maxLoss = q.margin
            /\ price = Undefined =>
                \A pr \in PriceChoices :
                    /\ profitAtPrice(q, other, pr)
                        = profitAtPrice(params, result, pr)
                    /\ profitPercentAtPrice(q, other, pr)
                        = profitPercentAtPrice(params, result, pr)
            /\ price # Undefined =>
                /\ profit = profitAtPrice(q, other, price)
                /\ profitPercent = profitPercentAtPrice(q, other, price)

C12_Witness ==
    /\ Computed
    /\ params.marginMode = "cross"
    /\ params.margin = Int2Num(20)
    /\ params.leverage = Int2Num(5)
    /\ result.maxLoss = Int2Num(20)
    /\ price = Int2Num(62000)
    /\ profit # Undefined

\* C13: for openPrice > 0, margin > 0 and leverage >= 1, positionSize is
\* margin * leverage and positionSizeInCoin is positionSize / openPrice.
C13_PositionSize ==
    (/\ Computed
     /\ Positive(params.openPrice)
     /\ Positive(params.margin)
     /\ Le(One, params.leverage)) =>
        /\ result.positionSize = Mul(params.margin, params.leverage)
        /\ result.positionSizeInCoin
            = Div(Mul(params.margin, params.leverage), params.openPrice)
        /\ Mul(result.positionSizeInCoin, params.openPrice)
            = result.positionSize

C13_Witness ==
    /\ Computed
    /\ params.openPrice = Int2Num(60000)
    /\ params.margin = Int2Num(20)
    /\ params.leverage = Int2Num(200)
    /\ result.positionSize = Int2Num(4000)
    /\ result.positionSizeInCoin = Num(1, 15)

\* C14: openFeeAmount is positionSize * open fee rate, closeFeeAmount is
\* positionSize * close fee rate, totalFeeAmount is their sum, and the three
\* do not depend on positionType, openPrice or the maintenance rate.
C14_FeeAmounts ==
    Computed =>
        LET size == Mul(params.margin, params.leverage)
            openRate == Coalesce(params.openFee, Num(1, 5000))
            closeRate == Coalesce(params.closeFee, Num(1, 5000))
            Fees(r) == <<r.openFeeAmount, r.closeFeeAmount, r.totalFeeAmount>>
            FeesOf(q) ==
                <<Mul(positionSizeOf(q), openFeeRateOf(q)),
                  Mul(positionSizeOf(q), closeFeeRateOf(q)),
                  totalFeeAmountOf(q)>>
        IN  /\ result.openFeeAmount = Mul(size, openRate)
            /\ result.closeFeeAmount = Mul(size, closeRate)
            /\ result.totalFeeAmount
                = Add(result.openFeeAmount, result.closeFeeAmount)
            /\ \A pt \in PositionTypes :
                FeesOf([params EXCEPT !.positionType = pt]) = Fees(result)
            /\ \A op \in OpenPrices :
                FeesOf([params EXCEPT !.openPrice = op]) = Fees(result)
            /\ \A m \in {Undefined} \cup MaintenanceRates :
                FeesOf([params EXCEPT !.maintainanceRate = m]) = Fees(result)

C14_Witness ==
    /\ Computed
    /\ params.margin = Int2Num(20)
    /\ params.leverage = Int2Num(5)
    /\ params.openFee = Undefined
    /\ params.closeFee = Num(1, 1000)
    /\ result.openFeeAmount = Num(2, 100)
    /\ result.closeFeeAmount = Num(1, 10)
    /\ result.totalFeeAmount = Num(12, 100)

\* C15: with positionSize # 0, breakEvenPrice is
\* openPrice * (1 + (totalFeeAmount / positionSize) * 1.1) for long and
\* openPrice * (1 - (totalFeeAmount / positionSize) * 1.1) for short.
C15_BreakEvenFormula ==
    (Computed /\ result.positionSize # Zero) =>
        LET offset ==
                Mul(Div(result.totalFeeAmount, result.positionSize),
                    Num(11, 10))
        IN  result.breakEvenPrice =
                (IF params.positionType = "long"
                 THEN Mul(params.openPrice, Add(One, offset))
                 ELSE Mul(params.openPrice, Add(One, Neg(offset))))

C15_Witness ==
    /\ Computed
    /\ params.positionType = "short"
    /\ params.openPrice = Int2Num(60000)
    /\ params.openFee = Undefined
    /\ params.closeFee = Undefined
    /\ result.positionSize = Int2Num(100)
    /\ result.breakEvenPrice = Num(599736, 10)

\* C16: with margin # 0, profitPercentAtPrice(price) is
\* profitAtPrice(price) / margin * 100 at every price.
C16_ProfitPercent ==
    (Computed /\ price # Undefined /\ params.margin # Zero) =>
        profitPercent = Mul(Div(profit, params.margin), Int2Num(100))

C16_Witness ==
    /\ Computed
    /\ params.openPrice = Int2Num(60000)
    /\ params.margin = Int2Num(20)
    /\ params.leverage = Int2Num(5)
    /\ params.positionType = "long"
    /\ params.openFee = Undefined
    /\ params.closeFee = Undefined
    /\ price = Int2Num(62000)
    /\ profit = Num(247, 75)
    /\ profitPercent = Num(247, 15)

\* C17: with fundingPeriodHours > 0, fundingFeePerPeriod is
\* positionSize * fundingRate and fundingFeePerDay is
\* fundingFeePerPeriod / fundingPeriodHours * 24; with the default period of
\* 8 hours the daily fee is three times the fee of a period.
C17_FundingFees ==
    (Computed /\ Positive(Coalesce(params.fundingPeriodHours, Int2Num(8)))) =>
        LET rate == Coalesce(params.fundingRate, Zero)
            hours == Coalesce(params.fundingPeriodHours, Int2Num(8))
        IN  /\ result.fundingFeePerPeriod = Mul(result.positionSize, rate)
            /\ result.fundingFeePerDay
                = Mul(Div(result.fundingFeePerPeriod, hours), Int2Num(24))
            /\ params.fundingPeriodHours = Undefined =>
                result.fundingFeePerDay
                    = Mul(Int2Num(3), result.fundingFeePerPeriod)

C17_Witness ==
    /\ Computed
    /\ params.margin = Int2Num(20)
    /\ params.leverage = Int2Num(5)
    /\ params.fundingRate = Num(1, 10000)
    /\ params.fundingPeriodHours = Undefined
    /\ result.fundingFeePerPeriod = Num(1, 100)
    /\ result.fundingFeePerDay = Num(3, 100)


----------------------------------------------------------------------------
(* Repeated calls: calculateContract called again and again with parameter
   objects built afresh, each result used for closure calls *)

MaxCalls == 3
MaxEvals == 2

\* the parameters of the page as it is first rendered
HomeDefaults ==
    [openPrice |-> Int2Num(60000),
     margin |-> Int2Num(20),
     leverage |-> Int2Num(5),
     marginMode |-> "isolated",
     positionType |-> "long",
     maintainanceRate |-> Num(1, 200),
     openFee |-> Num(2, 10000),
     closeFee |-> Num(2, 10000),
     fundingRate |-> Zero,
     fundingPeriodHours |-> Undefined]

CallParamSet ==
    {HomeDefaults,
     [HomeDefaults EXCEPT !.positionType = "short"],
     [HomeDefaults EXCEPT !.leverage = Int2Num(1)]}

CallPrices == {Int2Num(62000 * k) : k \in 0..MaxPriceSteps}

\* calculateContract(p) on a new parameter object p; the closures of the
\* new result are called once at each price when it is returned
CallCalculateContract ==
    /\ Len(calls) < MaxCalls
    /\ \E p \in CallParamSet :
        LET r == calculateContract(p)
        IN  /\ params' = p
            /\ result' = r
            /\ calls' =
                Append(calls,
                    [params |-> p,
                     result |-> r,
                     profits |-> [pr \in CallPrices |-> profitAtPrice(p, r, pr)],
                     percents |->
                        [pr \in CallPrices |-> profitPercentAtPrice(p, r, pr)]])
    /\ price' = Undefined
    /\ profit' = Undefined
    /\ profitPercent' = Undefined
    /\ evals' = <<>>
    /\ UNCHANGED solved
    /\ UNCHANGED <<serverVars, browserVars, positions>>

\* result.profitAtPrice(pr) and result.profitPercentAtPrice(pr)
CallClosures ==
    /\ Computed
    /\ Len(evals) < MaxEvals
    /\ \E pr \in PriceChoices :
        LET v == profitAtPrice(params, result, pr)
            w == profitPercentAtPrice(params, result, pr)
        IN  /\ price' = pr
            /\ profit' = v
            /\ profitPercent' = w
            /\ evals' =
                Append(evals, [price |-> pr, profit |-> v, profitPercent |-> w])
    /\ UNCHANGED <<params, result, solved, calls>>
    /\ UNCHANGED <<serverVars, browserVars, positions>>

InitCalls ==
    /\ params = HomeDefaults
    /\ result = NoResult
    /\ price = Undefined
    /\ profit = Undefined
    /\ profitPercent = Undefined
    /\ solved = NoSolve
    /\ calls = <<>>
    /\ evals = <<>>
    /\ ServerStart
    /\ BrowserStart
    /\ PageStart

NextCalls == CallCalculateContract \/ CallClosures

SpecCalls == InitCalls /\ [][NextCalls]_vars

\* C18: two calls of calculateContract with equal parameter values, whatever
\* calls were made before or between them, return equal numeric fields and
\* closures that return equal values at every price.
C18_Deterministic ==
    \A i, j \in DOMAIN calls :
        calls[i].params = calls[j].params =>
            /\ calls[i].result = calls[j].result
            /\ calls[i].profits = calls[j].profits
            /\ calls[i].percents = calls[j].percents

C18_Witness ==
    /\ Len(calls) = 3
    /\ calls[1].params = calls[3].params
    /\ calls[2].params # calls[1].params
    /\ calls[2].result # calls[1].result
    /\ calls[1].result = calls[3].result
    /\ Len(evals) = 0

\* C19: closure calls leave every numeric field of the result as
\* calculateContract returned it, and the values returned for a price are
\* the same whether the call is the first or follows calls with other
\* prices.
C19_ClosuresPure ==
    /\ Computed => (Len(calls) > 0 /\ result = calls[Len(calls)].result)
    /\ \A i, j \in DOMAIN evals :
        evals[i].price = evals[j].price =>
            /\ evals[i].profit = evals[j].profit
            /\ evals[i].profitPercent = evals[j].profitPercent
    /\ \A i \in DOMAIN evals :
        evals[i].price \in CallPrices =>
            /\ evals[i].profit = calls[Len(calls)].profits[evals[i].price]
            /\ evals[i].profitPercent
                = calls[Len(calls)].percents[evals[i].price]

C19_Witness ==
    /\ Len(evals) = 2
    /\ evals[1].price = Zero
    /\ evals[2].price = Int2Num(62000)
    /\ evals[2].profit = calls[Len(calls)].profits[Int2Num(62000)]
    /\ evals[2].profit # evals[1].profit
    /\ result = calls[Len(calls)].result


----------------------------------------------------------------------------
(* Degenerate inputs *)

EdgeParamSet ==
    [openPrice : {Int2Num(-60000), Int2Num(0), Int2Num(60000)},
     margin : Margins,
     leverage : {Int2Num(0), Int2Num(5)},
     marginMode : {"isolated"},
     positionType : PositionTypes,
     maintainanceRate : {Undefined},
     openFee : {Undefined},
     closeFee : {Undefined},
     fundingRate : {Undefined},
     fundingPeriodHours : {Undefined}]

InitEdge ==
    /\ params \in EdgeParamSet
    /\ result = NoResult
    /\ price = Undefined
    /\ profit = Undefined
    /\ profitPercent = Undefined
    /\ solved = NoSolve
    /\ calls = <<>>
    /\ evals = <<>>
    /\ ServerStart
    /\ BrowserStart
    /\ PageStart

SpecEdge == InitEdge /\ [][NextSolve]_vars

\* a number: finite, +Infinity, -Infinity or NaN
IsNumber(x) ==
    /\ Len(x) = 2
    /\ (x[2] > 0 \/ x \in {NaN, PosInf, NegInf})

\* C20: for every numeric input, leverage 0, openPrice 0 or negative and
\* margin 0 included, calculateContract and the two inverse solvers return
\* numbers; with leverage 0 the liquidation price is not finite and with
\* openPrice 0 positionSizeInCoin is not finite.
C20_NeverRaises ==
    /\ Computed =>
        /\ \A f \in DOMAIN result : IsNumber(result[f])
        /\ params.leverage = Zero => ~IsFinite(result.liquidationPrice)
        /\ params.openPrice = Zero => ~IsFinite(result.positionSizeInCoin)
    /\ solved.fn # "none" => IsNumber(solved.value)

C20_Witness ==
    /\ Computed
    /\ params.leverage = Zero
    /\ params.openPrice = Zero
    /\ params.margin = Zero
    /\ IsNaN(result.liquidationPrice)
    /\ IsNaN(result.positionSizeInCoin)
    /\ SolvedLiq
    /\ solved.openPrice = Zero
    /\ solved.targetLiquidationPrice = Int2Num(100)
    /\ solved.positionType = "short"
    /\ solved.value = One


----------------------------------------------------------------------------
(* Properties of the risk solver and of the defaults *)

\* C21: calculateLeverageFromRiskPercentage does not depend on the direction:
\* whatever riskPercentage and maintenance rate it is called with, the value
\* it returned equals the value it returns for the other positionType.
C21_DirectionIndependent ==
    SolvedRisk =>
        solved.value
            = calculateLeverageFromRiskPercentage(solved.riskPercentage, OtherType(solved.positionType), solved.maintainanceRate)

C21_Witness ==
    /\ SolvedRisk
    /\ solved.positionType = "short"
    /\ solved.riskPercentage = Num(39, 2)
    /\ solved.maintainanceRate = Undefined
    /\ solved.value = Int2Num(5)


\* the parameter object with every omitted optional field written out as its
\* default value
WithDefaults(p) ==
    [p EXCEPT
        !.maintainanceRate = IF @ = Undefined THEN Num(5, 1000) ELSE @,
        !.openFee = IF @ = Undefined THEN Num(2, 10000) ELSE @,
        !.closeFee = IF @ = Undefined THEN Num(2, 10000) ELSE @,
        !.fundingRate = IF @ = Undefined THEN Zero ELSE @,
        !.fundingPeriodHours = IF @ = Undefined THEN Int2Num(8) ELSE @]

\* C22: a parameter set that omits maintainanceRate, openFee, closeFee,
\* fundingRate or fundingPeriodHours gives the same result as the one that
\* sets the omitted fields to 0.005, 0.0002, 0.0002, 0 and 8; a field the
\* caller supplies, an explicit 0 included, is used as given.
C22_DefaultsMerged ==
    Computed =>
        /\ result = calculateContract(WithDefaults(params))
        /\ params.openFee # Undefined =>
            result.openFeeAmount = Mul(result.positionSize, params.openFee)
        /\ params.closeFee # Undefined =>
            result.closeFeeAmount = Mul(result.positionSize, params.closeFee)
        /\ params.fundingRate # Undefined =>
            result.fundingFeePerPeriod
                = Mul(result.positionSize, params.fundingRate)
        /\ params.fundingPeriodHours # Undefined =>
            result.fundingFeePerDay
                = Mul(Div(result.fundingFeePerPeriod, params.fundingPeriodHours),
                      Int2Num(24))
        /\ (/\ params.maintainanceRate # Undefined
            /\ Positive(params.openPrice)
            /\ Positive(params.leverage)) =>
            result.liquidationPrice
                = IF params.positionType = "long"
                  THEN Mul(params.openPrice,
                           Add(Sub(One, Div(One, params.leverage)),
                               params.maintainanceRate))
                  ELSE Mul(params.openPrice,
                           Sub(Add(One, Div(One, params.leverage)),
                               params.maintainanceRate))

C22_Witness ==
    /\ Computed
    /\ params.openPrice = Int2Num(60000)
    /\ params.margin = Int2Num(20)
    /\ params.leverage = Int2Num(5)
    /\ params.positionType = "long"
    /\ params.maintainanceRate = Zero
    /\ params.openFee = Zero
    /\ params.closeFee = Undefined
    /\ params.fundingRate = Undefined
    /\ params.fundingPeriodHours = Undefined
    /\ result.liquidationPrice = Int2Num(48000)
    /\ result.openFeeAmount = Zero
    /\ result.closeFeeAmount = Num(2, 100)
    /\ result.totalFeeAmount = Num(2, 100)


\* C23: for openPrice 60000, margin 20, leverage 5, long, isolated,
\* maintenance rate 0.005, open and close fee rate 0.0002 and funding rate 0
\* (the values the page starts with) calculateContract returns positionSize
\* 100, positionSizeInCoin 100/60000, liquidationPrice 48300, riskPercentage
\* 19.5, maxLoss 20, openFeeAmount 0.02, closeFeeAmount 0.02 and
\* totalFeeAmount 0.04.
C23_ReferenceScenario ==
    (/\ Computed
     /\ params.openPrice = Int2Num(60000)
     /\ params.margin = Int2Num(20)
     /\ params.leverage = Int2Num(5)
     /\ params.positionType = "long"
     /\ params.marginMode = "isolated"
     /\ params.maintainanceRate = Num(5, 1000)
     /\ params.openFee = Num(2, 10000)
     /\ params.closeFee = Num(2, 10000)
     /\ params.fundingRate = Zero) =>
        /\ result.positionSize = Int2Num(100)
        /\ result.positionSizeInCoin = Num(100, 60000)
        /\ result.liquidationPrice = Int2Num(48300)
        /\ result.riskPercentage = Num(195, 10)
        /\ result.maxLoss = Int2Num(20)
        /\ result.openFeeAmount = Num(2, 100)
        /\ result.closeFeeAmount = Num(2, 100)
        /\ result.totalFeeAmount = Num(4, 100)

C23_Witness ==
    /\ Computed
    /\ params = HomeDefaults
    /\ Len(calls) = 2
    /\ calls[1].params.positionType = "short"
    /\ result.liquidationPrice = Int2Num(48300)
    /\ result.riskPercentage = Num(39, 2)
    /\ result.totalFeeAmount = Num(1, 25)


----------------------------------------------------------------------------
(* The parameter object changed by the caller after the call *)

\* one call of calculateContract on a new parameter object
FirstCall == calls = <<>> /\ CallCalculateContract

\* the caller assigns a new value to openPrice, margin or positionType of the
\* parameter object it passed to calculateContract; the result object and its
\* closures are the ones that call returned
MutateParams ==
    /\ Computed
    /\ params = calls[Len(calls)].params
    /\ \E q \in {[params EXCEPT !.openPrice = Int2Num(30000)],
                  [params EXCEPT !.margin = Int2Num(40)],
                  [params EXCEPT !.positionType = OtherType(@)]} :
        /\ q # params
        /\ params' = q
    /\ UNCHANGED <<result, price, profit, profitPercent, solved, calls, evals>>
    /\ UNCHANGED <<serverVars, browserVars, positions>>

NextMutate == FirstCall \/ CallClosures \/ MutateParams

SpecMutate == InitCalls /\ [][NextMutate]_vars

\* C25: the closures use the parameter values as they were when
\* calculateContract was called: after the caller has changed openPrice,
\* margin or positionType on the parameter object, result.profitAtPrice(p) and
\* result.profitPercentAtPrice(p) return what they returned for p when the
\* result was new.
C25_ClosuresKeepCallTimeValues ==
    \A i \in DOMAIN evals :
        evals[i].price \in CallPrices =>
            /\ evals[i].profit = calls[Len(calls)].profits[evals[i].price]
            /\ evals[i].profitPercent
                = calls[Len(calls)].percents[evals[i].price]


----------------------------------------------------------------------------
(* The server: getBinancePrice of binance.ts behind the price procedure of
   routers.ts.  A call runs up to its await in one step; the response of
   Binance, or the failure of the request, is a later step, and other calls
   and the clock may move in between. *)

CACHE_DURATION == 60 * 1000

MaxTicks == 2
MaxRequests == 2
MaxInFlight == 2
MaxSignedRequests == 1

\* mutant: an entry is still served when its age is CACHE_DURATION
CacheValidInclusive(cached, t) == cached # NoEntry /\ t - cached.timestamp <= CACHE_DURATION

\* cached && Date.now() - cached.timestamp < CACHE_DURATION
CacheValid(cached, t) == cached # NoEntry /\ t - cached.timestamp < CACHE_DURATION

\* the clock moves on by half the cache duration
Tick ==
    /\ now < MaxTicks * (CACHE_DURATION \div 2)
    /\ now' = now + CACHE_DURATION \div 2
    /\ UNCHANGED <<env, priceCache, feeCache, leverageCache, pending, reply, fetched, requests>>
    /\ UNCHANGED <<calcVars, browserVars, positions>>

\* the price field of the response body is a string of character codes:
\* "60000" and "62000.50"
PriceStrings == {<<54, 48, 48, 48, 48>>, <<54, 50, 48, 48, 48, 46, 53, 48>>}

IsDigit(c) == c >= 48 /\ c <= 57

RECURSIVE ParseFrom(_, _, _, _, _)
ParseFrom(s, i, n, d, dot) ==
    IF i > Len(s) THEN <<n, d>>
    ELSE IF IsDigit(s[i])
         THEN ParseFrom(s, i + 1, n * 10 + (s[i] - 48), IF dot THEN d * 10 ELSE d, dot)
    ELSE IF s[i] = 46 /\ ~dot THEN ParseFrom(s, i + 1, n, d, TRUE)
    ELSE <<n, d>>

\* parseFloat of an unsigned decimal string: the longest numeric prefix, NaN
\* when the string does not start with a digit
ParseFloat(s) ==
    IF s = <<>> \/ ~IsDigit(s[1]) THEN NaN
    ELSE LET v == ParseFrom(s, 1, 0, 1, FALSE) IN Norm(v[1], v[2])

\* what the price procedure returns
PriceProcedure(outcome, value) ==
    IF outcome = "return"
    THEN [success |-> TRUE, price |-> value]
    ELSE [success |-> FALSE, error |-> "Failed to fetch price from Binance"]

\* getBinancePrice(symbol) up to the await of fetch
GetBinancePrice ==
    /\ \E symbol \in Symbols :
        LET cached == priceCache[symbol]
        IN  IF CacheValid(cached, now)
            THEN /\ reply' =
                        [proc |-> "price",
                         input |-> [symbol |-> symbol],
                         startedAt |-> now,
                         after |-> Len(fetched),
                         requested |-> FALSE,
                         failed |-> FALSE,
                         entry |-> cached,
                         outcome |-> "return",
                         value |-> cached.data.price,
                         response |-> PriceProcedure("return", cached.data.price)]
                 /\ UNCHANGED <<pending, requests>>
            ELSE /\ requests < MaxRequests
                 /\ Cardinality(pending) < MaxInFlight
                 /\ requests' = requests + 1
                 /\ pending' =
                        pending \cup
                            {[id |-> requests + 1,
                              proc |-> "price",
                              input |-> [symbol |-> symbol],
                              cached |-> cached,
                              startedAt |-> now,
                              after |-> Len(fetched)]}
                 /\ UNCHANGED reply
    /\ UNCHANGED <<env, now, priceCache, feeCache, leverageCache, fetched>>
    /\ UNCHANGED <<calcVars, browserVars, positions>>

\* the response is OK: the price is parsed, stored and returned
PriceResponse ==
    /\ \E c \in pending, body \in PriceStrings :
        LET newPrice == ParseFloat(body)
            stored ==
                [data |-> [symbol |-> c.input.symbol, price |-> newPrice, timestamp |-> now],
                 timestamp |-> now]
        IN  /\ c.proc = "price"
            /\ priceCache' = [priceCache EXCEPT ![c.input.symbol] = stored]
            /\ fetched' =
                Append(fetched,
                    [cache |-> "price", key |-> c.input.symbol, entry |-> stored])
            /\ pending' = pending \ {c}
            /\ reply' =
                [proc |-> "price",
                 input |-> c.input,
                 startedAt |-> c.startedAt,
                 after |-> c.after,
                 requested |-> TRUE,
                 failed |-> FALSE,
                 entry |-> stored,
                 outcome |-> "return",
                 value |-> newPrice,
                 response |-> PriceProcedure("return", newPrice)]
    /\ UNCHANGED <<env, now, feeCache, leverageCache, requests>>
    /\ UNCHANGED <<calcVars, browserVars, positions>>

\* fetch rejects or the response is not OK: the entry read before the
\* request is returned if there was one, the error is thrown otherwise
PriceFailure ==
    /\ \E c \in pending :
        LET outcome == IF c.cached # NoEntry THEN "return" ELSE "throw"
            value == IF c.cached # NoEntry THEN c.cached.data.price ELSE Undefined
        IN  /\ c.proc = "price"
            /\ pending' = pending \ {c}
            /\ reply' =
                [proc |-> "price",
                 input |-> c.input,
                 startedAt |-> c.startedAt,
                 after |-> c.after,
                 requested |-> TRUE,
                 failed |-> TRUE,
                 entry |-> priceCache[c.input.symbol],
                 outcome |-> outcome,
                 value |-> value,
                 response |-> PriceProcedure(outcome, value)]
    /\ UNCHANGED <<env, now, priceCache, feeCache, leverageCache, fetched, requests>>
    /\ UNCHANGED <<calcVars, browserVars, positions>>

InitPrice ==
    /\ params = HomeDefaults
    /\ result = NoResult
    /\ price = Undefined
    /\ profit = Undefined
    /\ profitPercent = Undefined
    /\ solved = NoSolve
    /\ calls = <<>>
    /\ evals = <<>>
    /\ ServerStart
    /\ BrowserStart
    /\ PageStart

NextPrice == GetBinancePrice \/ PriceResponse \/ PriceFailure \/ Tick

SpecPrice == InitPrice /\ [][NextPrice]_vars


\* the entries of one cache key in the log, among its first n records
RECURSIVE LatestFetch(_, _, _)
LatestFetch(cache, key, n) ==
    IF n = 0 THEN 0
    ELSE IF fetched[n].cache = cache /\ fetched[n].key = key THEN n
    ELSE LatestFetch(cache, key, n - 1)

PriceCall == reply.proc = "price"

\* every entry of priceCache is the response stored last for its symbol, and
\* a symbol without a stored response has no entry
PriceCacheIsLatestFetch ==
    \A s \in Symbols :
        LET i == LatestFetch("price", s, Len(fetched))
        IN  priceCache[s] = IF i = 0 THEN NoEntry ELSE fetched[i].entry

\* C26 as claimed: after getBinancePrice(symbol) has fetched a price at time
\* t, every call for the symbol made later and before t + 60 s returns that
\* price without a request, and a call at or after t + 60 s (of the fetch made
\* last) issues a request; the entries of other symbols are not affected.
C26_EveryFetchServedForTtl ==
    /\ PriceCall =>
        /\ \A i \in 1..reply.after :
            (/\ fetched[i].cache = "price"
             /\ fetched[i].key = reply.input.symbol
             /\ reply.startedAt < fetched[i].entry.timestamp + 60000) =>
                /\ ~reply.requested
                /\ reply.value = fetched[i].entry.data.price
        /\ LET i == LatestFetch("price", reply.input.symbol, reply.after)
           IN  (i = 0 \/ reply.startedAt >= fetched[i].entry.timestamp + 60000) =>
                    reply.requested
    /\ PriceCacheIsLatestFetch

\* C26 as amended: with t the time of the fetch that was stored last for the
\* symbol before the call, a call before t + 60 s returns the price of that
\* fetch without a request, and a call at or after t + 60 s, or with no fetch
\* stored yet, issues a request; the entries of other symbols are not
\* affected.
C26_LatestFetchServedForTtl ==
    /\ PriceCall =>
        LET i == LatestFetch("price", reply.input.symbol, reply.after)
        IN  /\ (i > 0 /\ reply.startedAt < fetched[i].entry.timestamp + 60000) =>
                /\ ~reply.requested
                /\ reply.value = fetched[i].entry.data.price
            /\ (i = 0 \/ reply.startedAt >= fetched[i].entry.timestamp + 60000) =>
                reply.requested
    /\ PriceCacheIsLatestFetch

\* a price stored at time 0 was served from the cache, and the call made 60 s
\* later has fetched again
C26_Witness ==
    /\ PriceCall
    /\ Len(fetched) = 2
    /\ fetched[1].key = "BTCUSDT"
    /\ fetched[2].key = "BTCUSDT"
    /\ fetched[1].entry.timestamp = 0
    /\ fetched[2].entry.timestamp = 60000
    /\ reply.input.symbol = "BTCUSDT"
    /\ reply.startedAt = 60000
    /\ reply.after = 1
    /\ reply.requested
    /\ reply.value = Num(124001, 2)
    /\ priceCache["ETHUSDT"] = NoEntry

\* C27: when the request of getBinancePrice(symbol) fails, the call returns
\* the price of the entry the cache holds for the symbol, however old, and
\* throws only when the cache holds none; the failed request leaves the cache
\* as it was.
C27_StaleFallback ==
    /\ (PriceCall /\ reply.failed) =>
        /\ reply.entry # NoEntry =>
            /\ reply.outcome = "return"
            /\ reply.value = reply.entry.data.price
            /\ reply.response = [success |-> TRUE, price |-> reply.entry.data.price]
        /\ reply.entry = NoEntry =>
            /\ reply.outcome = "throw"
            /\ reply.response.success = FALSE
    /\ PriceCacheIsLatestFetch


----------------------------------------------------------------------------
(* The server: getBinanceFees and getLeverageBrackets of binance.ts behind
   the fees and leverageBrackets procedures of routers.ts *)

EnvSet == {EnvUnset, [BINANCE_API_KEY |-> "serverKey", BINANCE_API_SECRET |-> "serverSecret"]}

\* the credential fields of a procedure input: a field may be left out,
\* and a field may be the empty string
CredentialInputs ==
    {<<>>,
     [apiKey |-> "keyA", apiSecret |-> "secretA"],
     [apiKey |-> "keyB", apiSecret |-> "secretB"],
     [apiKey |-> "keyA"],
     [apiKey |-> "", apiSecret |-> "secretB"]}

\* the inputs the leverageBrackets procedure is called with
LeverageSymbols == {"BTCUSDT"}

LeverageCredentialInputs ==
    {<<>>, [apiKey |-> "keyA", apiSecret |-> "secretA"], [apiSecret |-> "secretA"]}

\* a field that is present and not the empty string
Truthy(input, f) == f \in DOMAIN input /\ input[f] # ""

\* input.f || default
OrElse(input, f, default) == IF Truthy(input, f) THEN input[f] ELSE default

\* mutant: only a key without a secret is refused
KeyWithoutSecret(input) == Truthy(input, "apiKey") /\ ~Truthy(input, "apiSecret")

\* (input.apiKey && !input.apiSecret) || (!input.apiKey && input.apiSecret)
HalfSupplied(input) ==
    \/ (Truthy(input, "apiKey") /\ ~Truthy(input, "apiSecret"))
    \/ (~Truthy(input, "apiKey") /\ Truthy(input, "apiSecret"))

CredentialsError == [success |-> FALSE, error |-> "API key and secret must both be provided or both be empty"]

\* the commission rates Binance answers with for the account of an API key;
\* "" is a request that carries no key
CommissionRates(apiKey) ==
    CASE apiKey = "keyA" -> [makerCommission |-> Num(16, 100000), takerCommission |-> Num(4, 10000)]
      [] apiKey = "keyB" -> [makerCommission |-> Num(12, 100000), takerCommission |-> Num(3, 10000)]
      [] apiKey = "serverKey" -> [makerCommission |-> Num(1, 10000), takerCommission |-> Num(2, 10000)]
      [] OTHER -> [makerCommission |-> Num(2, 10000), takerCommission |-> Num(5, 10000)]

\* the commission fields of defaultFees
DefaultFees == [makerCommission |-> Num(2, 10000), takerCommission |-> Num(4, 10000)]

\* what the fees procedure returns after getBinanceFees returned or threw
FeesProcedure(outcome, value) ==
    IF outcome = "return"
    THEN [success |-> TRUE,
          makerCommission |-> value.makerCommission,
          takerCommission |-> value.takerCommission]
    ELSE [success |-> FALSE, error |-> "Failed to fetch fees from Binance"]

\* the fees procedure up to the await of fetch in getBinanceFees
FeesCall ==
    /\ \E input \in CredentialInputs :
        LET cached == feeCache
            apiKey == OrElse(input, "apiKey", env.BINANCE_API_KEY)
            apiSecret == OrElse(input, "apiSecret", env.BINANCE_API_SECRET)
            done(outcome, value, response) ==
                [proc |-> "fees",
                 input |-> input,
                 startedAt |-> now,
                 after |-> Len(fetched),
                 requested |-> FALSE,
                 failed |-> FALSE,
                 entry |-> cached,
                 outcome |-> outcome,
                 value |-> value,
                 response |-> response]
        IN  IF HalfSupplied(input)
            THEN /\ reply' = done("rejected", Undefined, CredentialsError)
                 /\ UNCHANGED <<pending, requests>>
            ELSE IF CacheValid(cached, now)
            THEN /\ reply' = done("return", cached.data, FeesProcedure("return", cached.data))
                 /\ UNCHANGED <<pending, requests>>
            ELSE /\ requests < MaxSignedRequests
                 /\ Cardinality(pending) < MaxInFlight
                 /\ requests' = requests + 1
                 /\ pending' =
                        pending \cup
                            {[id |-> requests + 1,
                              proc |-> "fees",
                              input |-> input,
                              cached |-> cached,
                              apiKey |-> apiKey,
                              apiSecret |-> apiSecret,
                              startedAt |-> now,
                              after |-> Len(fetched)]}
                 /\ UNCHANGED reply
    /\ UNCHANGED <<env, now, priceCache, feeCache, leverageCache, fetched>>
    /\ UNCHANGED <<calcVars, browserVars, positions>>

\* the key the request was signed for: none unless key and secret are both set
SignedFor(c) == IF c.apiKey # "" /\ c.apiSecret # "" THEN c.apiKey ELSE ""

\* the response is OK: the commission rates are stored under "fees" and
\* returned
FeesResponse ==
    /\ \E c \in pending :
        LET data == CommissionRates(SignedFor(c))
            stored == [data |-> data, timestamp |-> now]
        IN  /\ c.proc = "fees"
            /\ feeCache' = stored
            /\ fetched' = Append(fetched, [cache |-> "fees", key |-> "fees", entry |-> stored])
            /\ pending' = pending \ {c}
            /\ reply' =
                [proc |-> "fees",
                 input |-> c.input,
                 startedAt |-> c.startedAt,
                 after |-> c.after,
                 requested |-> TRUE,
                 failed |-> FALSE,
                 entry |-> stored,
                 outcome |-> "return",
                 value |-> data,
                 response |-> FeesProcedure("return", data)]
    /\ UNCHANGED <<env, now, priceCache, leverageCache, requests>>
    /\ UNCHANGED <<calcVars, browserVars, positions>>

\* the request fails: default fees with credentials, else the entry read
\* before the request, else the error
FeesFailure ==
    /\ \E c \in pending :
        LET outcome ==
                IF SignedFor(c) # "" \/ c.cached # NoEntry THEN "return" ELSE "throw"
            value ==
                IF SignedFor(c) # "" THEN DefaultFees
                ELSE IF c.cached # NoEntry THEN c.cached.data
                ELSE Undefined
        IN  /\ c.proc = "fees"
            /\ pending' = pending \ {c}
            /\ reply' =
                [proc |-> "fees",
                 input |-> c.input,
                 startedAt |-> c.startedAt,
                 after |-> c.after,
                 requested |-> TRUE,
                 failed |-> TRUE,
                 entry |-> feeCache,
                 outcome |-> outcome,
                 value |-> value,
                 response |-> FeesProcedure(outcome, value)]
    /\ UNCHANGED <<env, now, priceCache, feeCache, leverageCache, fetched, requests>>
    /\ UNCHANGED <<calcVars, browserVars, positions>>


\* the brackets Binance lists for a symbol, the lowest one last
BracketList ==
    <<[bracket |-> 1, initialLeverage |-> Int2Num(125), maintMarginRatio |-> Num(4, 1000)],
      [bracket |-> 2, initialLeverage |-> Int2Num(100), maintMarginRatio |-> Num(5, 1000)]>>

\* the bodies of an OK response of /fapi/v1/leverageBracket: an array with
\* the record of the symbol, whose bracket list may be empty, or an empty array
LeverageBodies(symbol) ==
    {<<>>,
     <<[symbol |-> symbol, leverageBrackets |-> <<>>]>>,
     <<[symbol |-> symbol, leverageBrackets |-> BracketList] >>}

LeverageError == [success |-> FALSE, error |-> "Failed to fetch leverage brackets from Binance"]

\* what the leverageBrackets procedure returns after getLeverageBrackets
\* returned or threw: reading a field of undefined throws inside the try block
LeverageProcedure(outcome, value) ==
    IF outcome # "return" THEN LeverageError
    ELSE IF value = Undefined THEN LeverageError
    ELSE IF Len(value.leverageBrackets) = 0 THEN LeverageError
    ELSE LET lowestBracket == value.leverageBrackets[Len(value.leverageBrackets)]
         IN  [success |-> TRUE,
              maintMarginRatio |-> lowestBracket.maintMarginRatio,
              initialLeverage |-> lowestBracket.initialLeverage,
              brackets |-> value.leverageBrackets]

\* the leverageBrackets procedure up to the await of fetch in
\* getLeverageBrackets
LeverageCall ==
    /\ \E symbol \in LeverageSymbols, creds \in LeverageCredentialInputs :
        LET input == [f \in DOMAIN creds \cup {"symbol"} |-> IF f = "symbol" THEN symbol ELSE creds[f]]
            cached == leverageCache[symbol]
            apiKey == OrElse(input, "apiKey", env.BINANCE_API_KEY)
            apiSecret == OrElse(input, "apiSecret", env.BINANCE_API_SECRET)
            done(outcome, value, response) ==
                [proc |-> "leverageBrackets",
                 input |-> input,
                 startedAt |-> now,
                 after |-> Len(fetched),
                 requested |-> FALSE,
                 failed |-> FALSE,
                 entry |-> cached,
                 outcome |-> outcome,
                 value |-> value,
                 response |-> response]
        IN  IF HalfSupplied(input)
            THEN /\ reply' = done("rejected", Undefined, CredentialsError)
                 /\ UNCHANGED <<pending, requests>>
            ELSE IF CacheValid(cached, now)
            THEN /\ reply' = done("return", cached.data, LeverageProcedure("return", cached.data))
                 /\ UNCHANGED <<pending, requests>>
            ELSE /\ requests < MaxSignedRequests
                 /\ Cardinality(pending) < MaxInFlight
                 /\ requests' = requests + 1
                 /\ pending' =
                        pending \cup
                            {[id |-> requests + 1,
                              proc |-> "leverageBrackets",
                              input |-> input,
                              cached |-> cached,
                              apiKey |-> apiKey,
                              apiSecret |-> apiSecret,
                              startedAt |-> now,
                              after |-> Len(fetched)]}
                 /\ UNCHANGED reply
    /\ UNCHANGED <<env, now, priceCache, feeCache, leverageCache, fetched>>
    /\ UNCHANGED <<calcVars, browserVars, positions>>

\* the response is OK: the first element of the body, undefined for an empty
\* array, is stored and returned
LeverageResponse ==
    /\ \E c \in pending :
        /\ c.proc = "leverageBrackets"
        /\ \E body \in LeverageBodies(c.input.symbol) :
            LET symbolData == IF Len(body) = 0 THEN Undefined ELSE body[1]
                stored == [data |-> symbolData, timestamp |-> now]
            IN  /\ leverageCache' = [leverageCache EXCEPT ![c.input.symbol] = stored]
                /\ fetched' =
                    Append(fetched,
                        [cache |-> "leverage", key |-> c.input.symbol, entry |-> stored])
                /\ pending' = pending \ {c}
                /\ reply' =
                    [proc |-> "leverageBrackets",
                     input |-> c.input,
                     startedAt |-> c.startedAt,
                     after |-> c.after,
                     requested |-> TRUE,
                     failed |-> FALSE,
                     entry |-> stored,
                     outcome |-> "return",
                     value |-> symbolData,
                     response |-> LeverageProcedure("return", symbolData)]
    /\ UNCHANGED <<env, now, priceCache, feeCache, requests>>
    /\ UNCHANGED <<calcVars, browserVars, positions>>

\* the request fails: the entry read before the request, else the error
LeverageFailure ==
    /\ \E c \in pending :
        LET outcome == IF c.cached # NoEntry THEN "return" ELSE "throw"
            value == IF c.cached # NoEntry THEN c.cached.data ELSE Undefined
        IN  /\ c.proc = "leverageBrackets"
            /\ pending' = pending \ {c}
            /\ reply' =
                [proc |-> "leverageBrackets",
                 input |-> c.input,
                 startedAt |-> c.startedAt,
                 after |-> c.after,
                 requested |-> TRUE,
                 failed |-> TRUE,
                 entry |-> leverageCache[c.input.symbol],
                 outcome |-> outcome,
                 value |-> value,
                 response |-> LeverageProcedure(outcome, value)]
    /\ UNCHANGED <<env, now, priceCache, feeCache, leverageCache, fetched, requests>>
    /\ UNCHANGED <<calcVars, browserVars, positions>>

InitCredentials ==
    /\ params = HomeDefaults
    /\ result = NoResult
    /\ price = Undefined
    /\ profit = Undefined
    /\ profitPercent = Undefined
    /\ solved = NoSolve
    /\ calls = <<>>
    /\ evals = <<>>
    /\ \E e \in EnvSet : ServerLoaded(e)
    /\ BrowserStart
    /\ PageStart

NextCredentials ==
    \/ FeesCall
    \/ FeesResponse
    \/ FeesFailure
    \/ LeverageCall
    \/ LeverageResponse
    \/ LeverageFailure
    \/ Tick

SpecCredentials == InitCredentials /\ [][NextCredentials]_vars


FeesCallDone == reply.proc = "fees"

\* the key the request of a caller is signed for: the caller's own when the
\* input carries key and secret, else the server's, else none
CallerKey(input) ==
    IF Truthy(input, "apiKey") /\ Truthy(input, "apiSecret") THEN input.apiKey
    ELSE IF env.BINANCE_API_KEY # "" /\ env.BINANCE_API_SECRET # "" THEN env.BINANCE_API_KEY
    ELSE ""

\* C24: the fee data a caller of getBinanceFees receives was fetched with the
\* caller's credentials: when the request succeeds or is not needed the data
\* are the commission rates of the caller's key, and when it fails they are
\* those or the default; never the rates fetched with another caller's key.
C24_FeesAreOfTheCaller ==
    (FeesCallDone /\ reply.outcome = "return") =>
        IF reply.failed
        THEN reply.value \in {DefaultFees, CommissionRates(CallerKey(reply.input))}
        ELSE reply.value = CommissionRates(CallerKey(reply.input))

\* exactly one of apiKey and apiSecret is a non-empty string
ExactlyOneCredential(input) == Truthy(input, "apiKey") # Truthy(input, "apiSecret")

\* every cache entry is the response stored last under its key
CachesAreLatestFetch ==
    /\ PriceCacheIsLatestFetch
    /\ LET i == LatestFetch("fees", "fees", Len(fetched))
       IN  feeCache = IF i = 0 THEN NoEntry ELSE fetched[i].entry
    /\ \A s \in Symbols :
        LET i == LatestFetch("leverage", s, Len(fetched))
        IN  leverageCache[s] = IF i = 0 THEN NoEntry ELSE fetched[i].entry

\* C28: the fees and leverageBrackets procedures answer an input in which
\* exactly one of apiKey and apiSecret is non-empty with {success: false,
\* error: "API key and secret must both be provided or both be empty"},
\* issue no request for it and leave the caches as they are; whatever the
\* input, they return an object with a success flag.
C28_HalfCredentialsRejected ==
    /\ reply.proc \in {"fees", "leverageBrackets"} =>
        /\ "success" \in DOMAIN reply.response
        /\ reply.response.success \in BOOLEAN
        /\ ExactlyOneCredential(reply.input) =>
            /\ reply.response =
                [success |-> FALSE,
                 error |-> "API key and secret must both be provided or both be empty"]
            /\ ~reply.requested
            /\ ~reply.failed
    /\ \A c \in pending : ~ExactlyOneCredential(c.input)
    /\ CachesAreLatestFetch

\* a key without a secret is refused by leverageBrackets after a fees call
\* has filled the fee cache, which stays as it was
C28_Witness ==
    /\ reply.proc = "leverageBrackets"
    /\ reply.input = [symbol |-> "BTCUSDT", apiSecret |-> "secretA"]
    /\ reply.response.success = FALSE
    /\ reply.response.error = "API key and secret must both be provided or both be empty"
    /\ ~reply.requested
    /\ Len(fetched) = 1
    /\ feeCache = fetched[1].entry
    /\ requests = 1
    /\ pending = {}


----------------------------------------------------------------------------
(* The browser: the API keys kept in localStorage (encryption.ts 14-140).
   A string is a sequence of UTF-16 character codes.  The stored item is the
   object that JSON.stringify writes and JSON.parse reads back, with its key
   and secret fields; its timestamp field, which nothing reads, is left out. *)

RECURSIVE BitXor(_, _)
BitXor(a, b) ==
    IF a = 0 THEN b
    ELSE IF b = 0 THEN a
    ELSE 2 * BitXor(a \div 2, b \div 2) + (((a % 2) + (b % 2)) % 2)

\* the character of a 6-bit value in the Base64 alphabet
Base64Char(v) ==
    IF v < 26 THEN 65 + v
    ELSE IF v < 52 THEN 97 + (v - 26)
    ELSE IF v < 62 THEN 48 + (v - 52)
    ELSE IF v = 62 THEN 43
    ELSE 47

\* the 6-bit value of a character of the Base64 alphabet
Base64Value(c) ==
    IF c >= 65 /\ c <= 90 THEN c - 65
    ELSE IF c >= 97 /\ c <= 122 THEN c - 97 + 26
    ELSE IF c >= 48 /\ c <= 57 THEN c - 48 + 52
    ELSE IF c = 43 THEN 62
    ELSE 63

\* btoa throws InvalidCharacterError for a character above U+00FF
BtoaThrows(s) == \E i \in DOMAIN s : s[i] > 255

\* btoa: three bytes become four characters, the last group is padded with "="
RECURSIVE Btoa(_)
Btoa(s) ==
    IF Len(s) = 0 THEN <<>>
    ELSE IF Len(s) = 1
    THEN LET n == s[1] * 16
         IN  <<Base64Char(n \div 64), Base64Char(n % 64), 61, 61>>
    ELSE IF Len(s) = 2
    THEN LET n == (s[1] * 256 + s[2]) * 4
         IN  <<Base64Char(n \div 4096), Base64Char((n \div 64) % 64), Base64Char(n % 64), 61>>
    ELSE LET n == s[1] * 65536 + s[2] * 256 + s[3]
         IN  <<Base64Char(n \div 262144), Base64Char((n \div 4096) % 64),
               Base64Char((n \div 64) % 64), Base64Char(n % 64)>>
                \o Btoa(SubSeq(s, 4, Len(s)))

\* atob of a padded Base64 string
RECURSIVE Atob(_)
Atob(s) ==
    IF Len(s) < 4 THEN <<>>
    ELSE IF s[3] = 61
    THEN LET n == Base64Value(s[1]) * 64 + Base64Value(s[2])
         IN  <<n \div 16>>
    ELSE IF s[4] = 61
    THEN LET n == Base64Value(s[1]) * 4096 + Base64Value(s[2]) * 64 + Base64Value(s[3])
         IN  <<n \div 1024, (n \div 4) % 256>>
    ELSE LET n == Base64Value(s[1]) * 262144 + Base64Value(s[2]) * 4096
                    + Base64Value(s[3]) * 64 + Base64Value(s[4])
         IN  <<n \div 65536, (n \div 256) % 256, n % 256>>
                \o Atob(SubSeq(s, 5, Len(s)))

\* the characters of text, each XORed with key.charCodeAt(i % key.length)
XorWithKey(text, key) == [i \in 1..Len(text) |-> BitXor(text[i], key[((i - 1) % Len(key)) + 1])]

simpleEncryptThrows(text, key) == BtoaThrows(XorWithKey(text, key))

simpleEncrypt(text, key) == Btoa(XorWithKey(text, key))

\* mutant: every character is XORed with the first character of the key
simpleDecryptFirstKeyChar(encrypted, key) == [i \in 1..Len(Atob(encrypted)) |-> BitXor(Atob(encrypted)[i], key[1])]

simpleDecrypt(encrypted, key) == XorWithKey(Atob(encrypted), key)

\* getDecryptedApiKeys(): null without an item, and null when a decrypted
\* string is empty
getDecryptedApiKeys ==
    IF storage = NoEntry THEN Undefined
    ELSE LET apiKey == simpleDecrypt(storage.key, encryptionKey)
             apiSecret == simpleDecrypt(storage.secret, encryptionKey)
         IN  IF apiKey = <<>> \/ apiSecret = <<>> THEN Undefined
             ELSE [apiKey |-> apiKey, apiSecret |-> apiSecret]

\* hasApiKeys(): !!(data.key && data.secret)
hasApiKeys ==
    IF storage = NoEntry THEN FALSE
    ELSE storage.key # <<>> /\ storage.secret # <<>>

\* the values of getLocalEncryptionKey(), a number written in base 36, that
\* browsers are tried with: "7" and "1z"
EncryptionKeys == {<<55>>, <<49, 122>>}

\* the strings handed to saveEncryptedApiKeys: "", "7", "ab", "K9z", "p4Zq!",
\* one with a character of the upper half of Latin-1, one with the euro sign
KeyStrings ==
    {<<>>, <<55>>, <<97, 98>>, <<75, 57, 122>>, <<112, 52, 90, 113, 33>>,
     <<252, 49>>, <<8364, 49>>}

\* saveEncryptedApiKeys(apiKey, apiSecret): the item is written, or the call
\* throws "Failed to save API keys" and the item stays as it was
SaveEncryptedApiKeys ==
    /\ \E apiKey \in KeyStrings, apiSecret \in KeyStrings :
        LET throws ==
                \/ simpleEncryptThrows(apiKey, encryptionKey)
                \/ simpleEncryptThrows(apiSecret, encryptionKey)
        IN  /\ lastOp' =
                [op |-> "save", apiKey |-> apiKey, apiSecret |-> apiSecret, threw |-> throws]
            /\ storage' =
                IF throws THEN storage
                ELSE [key |-> simpleEncrypt(apiKey, encryptionKey),
                      secret |-> simpleEncrypt(apiSecret, encryptionKey)]
    /\ UNCHANGED encryptionKey
    /\ UNCHANGED <<calcVars, serverVars, positions>>

\* clearApiKeys(): the item is removed
ClearApiKeys ==
    /\ storage' = NoEntry
    /\ lastOp' = [op |-> "clear"]
    /\ UNCHANGED encryptionKey
    /\ UNCHANGED <<calcVars, serverVars, positions>>

InitBrowser ==
    /\ params = HomeDefaults
    /\ result = NoResult
    /\ price = Undefined
    /\ profit = Undefined
    /\ profitPercent = Undefined
    /\ solved = NoSolve
    /\ calls = <<>>
    /\ evals = <<>>
    /\ ServerStart
    /\ \E k \in EncryptionKeys : BrowserLoaded(k)
    /\ PageStart

NextBrowser == SaveEncryptedApiKeys \/ ClearApiKeys

SpecBrowser == InitBrowser /\ [][NextBrowser]_vars

\* a non-empty string of characters up to U+00FF
SingleByteString(s) == s # <<>> /\ \A i \in DOMAIN s : s[i] <= 255

\* C29: after any sequence of saveEncryptedApiKeys and clearApiKeys calls in
\* one browser, getDecryptedApiKeys returns the pair of the last save when
\* the last call was a save of two non-empty strings of single-byte
\* characters, and returns null, with hasApiKeys false, when the last call
\* was clearApiKeys or nothing was saved.
C29_KeysFollowLastOperation ==
    /\ (/\ lastOp.op = "save"
        /\ SingleByteString(lastOp.apiKey)
        /\ SingleByteString(lastOp.apiSecret)) =>
            /\ getDecryptedApiKeys = [apiKey |-> lastOp.apiKey, apiSecret |-> lastOp.apiSecret]
            /\ ~lastOp.threw
    /\ lastOp.op \in {"clear", "none"} =>
            /\ getDecryptedApiKeys = Undefined
            /\ ~hasApiKeys

\* a five-character key and a Latin-1 secret saved under the two-character
\* encryption key, after which they are read back
C29_Witness ==
    /\ encryptionKey = <<49, 122>>
    /\ lastOp.op = "save"
    /\ lastOp.apiKey = <<112, 52, 90, 113, 33>>
    /\ lastOp.apiSecret = <<252, 49>>
    /\ storage # NoEntry
    /\ storage.key # lastOp.apiKey
    /\ getDecryptedApiKeys.apiKey = <<112, 52, 90, 113, 33>>
    /\ getDecryptedApiKeys.apiSecret = <<252, 49>>
    /\ hasApiKeys


----------------------------------------------------------------------------
(* The page: the list of PositionComparison and its three handlers, each
   applied to the list as the last render left it *)

MaxPositions == 3
MaxId == 4

\* parseInt of a string of character codes: the number written by its leading
\* digits, NaN when it does not start with a digit
RECURSIVE ParseDigits(_, _, _)
ParseDigits(s, i, n) ==
    IF i > Len(s) \/ ~IsDigit(s[i]) THEN n
    ELSE ParseDigits(s, i + 1, n * 10 + (s[i] - 48))

ParseInt(s) ==
    IF s = <<>> \/ ~IsDigit(s[1]) THEN NaN ELSE Int2Num(ParseDigits(s, 1, 0))

\* Number.prototype.toString of a non-negative integer or NaN
NumberToString(x) == IF IsNaN(x) THEN <<78, 97, 78>> ELSE DigitsOf(x[1])

\* Math.max(...xs, 0) over the first n elements of xs
RECURSIVE MaxOf(_, _)
MaxOf(xs, n) == IF n = 0 THEN Zero ELSE MathMax(xs[n], MaxOf(xs, n - 1))

\* mutant: the new id is the length of the list plus one
NewIdFromLength(ps) == Int2Num(Len(ps) + 1)

\* Math.max(...positions.map((p) => parseInt(p.id)), 0) + 1
NewId(ps) == Add(MaxOf([i \in 1..Len(ps) |-> ParseInt(ps[i].id)], Len(ps)), One)

\* addPosition(): a position with the default values and the next id is
\* appended
AddPosition ==
    /\ Len(positions) < MaxPositions
    /\ Le(NewId(positions), Int2Num(MaxId))
    /\ LET newId == NewId(positions)
       IN  positions' =
            Append(positions,
                [id |-> NumberToString(newId),
                 name |-> <<"position ", NumberToString(newId)>>,
                 openPrice |-> Int2Num(60000),
                 margin |-> Int2Num(20),
                 leverage |-> Int2Num(5),
                 positionType |-> "long",
                 marginMode |-> "isolated"])
    /\ UNCHANGED <<calcVars, serverVars, browserVars>>

\* positions.filter((p) => p.id !== id) over the first n positions
RECURSIVE Filter(_, _, _)
Filter(ps, id, n) ==
    IF n = 0 THEN <<>>
    ELSE IF ps[n].id # id THEN Append(Filter(ps, id, n - 1), ps[n])
    ELSE Filter(ps, id, n - 1)

\* deletePosition(pos.id) of a listed position: it is removed unless it is
\* the only one
DeletePosition ==
    /\ \E i \in DOMAIN positions :
        positions' =
            IF Len(positions) > 1
            THEN Filter(positions, positions[i].id, Len(positions))
            ELSE positions
    /\ UNCHANGED <<calcVars, serverVars, browserVars>>

\* the updates the inputs of a position send: a name, and a leverage
\* (parseFloat(e.target.value) || 1)
PositionUpdates == {[name |-> <<"hedge">>], [leverage |-> Int2Num(1)]}

\* { ...p, ...updates }
Merge(p, updates) == [f \in DOMAIN p |-> IF f \in DOMAIN updates THEN updates[f] ELSE p[f]]

\* updatePosition(pos.id, updates) of a listed position
UpdatePosition ==
    /\ \E i \in DOMAIN positions, updates \in PositionUpdates :
        positions' =
            [j \in DOMAIN positions |->
                IF positions[j].id = positions[i].id
                THEN Merge(positions[j], updates)
                ELSE positions[j]]
    /\ UNCHANGED <<calcVars, serverVars, browserVars>>

InitPage ==
    /\ params = HomeDefaults
    /\ result = NoResult
    /\ price = Undefined
    /\ profit = Undefined
    /\ profitPercent = Undefined
    /\ solved = NoSolve
    /\ calls = <<>>
    /\ evals = <<>>
    /\ ServerStart
    /\ BrowserStart
    /\ PageStart

NextPage == AddPosition \/ DeletePosition \/ UpdatePosition

SpecPage == InitPage /\ [][NextPage]_vars

\* C30: after any sequence of addPosition, deletePosition and updatePosition
\* the ids of the listed positions are pairwise distinct: an id names at most
\* one position of the list.
C30_IdsDistinct ==
    \A i, j \in DOMAIN positions :
        positions[i].id = positions[j].id => i = j

\* position 1 was deleted and two positions were added, one of them renamed
C30_Witness ==
    /\ Len(positions) = 3
    /\ positions[1].id = <<50>>
    /\ positions[2].id = <<51>>
    /\ positions[3].id = <<52>>
    /\ positions[3].name = <<"hedge">>
    /\ positions[2].leverage = Int2Num(1)

====
